---- MODULE Spec2Model ----
(***************************************************************************)
(* Model of temperaturealert (src/main.py): a single-threaded program that *)
(* opens a serial port, reads a temperature from the attached device,      *)
(* appends a line to a log file, posts the line to a remote endpoint, and  *)
(* repeats on every quarter of the hour.                                   *)
(*                                                                         *)
(* Time is the wall clock in whole seconds, counted from the top of an     *)
(* hour.  Python exceptions are a pending-exception variable (exc) that    *)
(* unwinds to the handler the source gives it.                             *)
(***************************************************************************)
EXTENDS Integers, Sequences, FiniteSets

VARIABLES
    pc,          \* position of the single thread in main.py
    ser,         \* the serial connection: "unopened", "open" or "closed"
    entered,     \* TRUE once the try block of main (line 81) has been entered
    now,         \* wall clock, whole seconds since the top of hour 0
    inbuf,       \* bytes waiting in the serial input buffer
    temp_f,      \* log_temperature's temp_f: <<>> is None, <<f>> is f/80 degrees F
    line,        \* log_temperature's line: <<>> unset, else <<minute stamp, tenths>>
    logFile,     \* temperaturealert.log: the texts written, each line's text
                 \* followed by NEWLINE, oldest first
    posted,      \* bodies handed to requests.post, oldest first
    out,         \* console output of the current tick (of startup before the first)
    exc,         \* pending exception, "none" when there is none
    exitStatus,  \* process exit status, -1 while the process runs
    wait,        \* main's wait, in whole seconds (-1 before the first computation)
    woke,        \* clock value at which the last time.sleep(wait) returned, -1 if none
    readings,    \* calls of log_temperature so far
    sleeps,      \* completed time.sleep(wait) calls so far
    commands,    \* device commands written so far
    interruptedAt, \* pc at which the operator interrupt arrived, "none" if none
    tick,        \* what happened in the current call of log_temperature
    q            \* input and result of a stand-alone call of seconds_to_next_quarter
                 \* or of the decoding of read_temperature_f

vars == <<pc, ser, entered, now, inbuf, temp_f, line, logFile, posted, out, exc,
          exitStatus, wait, woke, readings, sleeps, commands, interruptedAt, tick, q>>

----------------------------------------------------------------------------
(* Bounds of the model *)

\* log_temperature is called at most this many times in a run
MaxTicks == 2
\* longest time, in seconds, the HTTP submission of one tick is taken to block
MaxStall == 900
\* longest time, in seconds, time.sleep(wait) returns late
MaxOvershoot == 1

\* clock values at which the program is started (0:00, 7:30, 14:59 past the hour)
StartTimes == {0, 450, 899}
\* sub-second parts of the clock tried for seconds_to_next_quarter
Micros == {0, 1, 500000, 999999}

----------------------------------------------------------------------------
(* Program constants *)

PACKET_LEN == 18
TEMP1_OFFSET == 9
READ_SIZE == 64
SETTLE_DELAY == 1
SER_TIMEOUT == 2
QUARTER_MINUTES == 15
USEC == 1000000

NoneVal == <<>>
Some(v) == <<v>>

Range(s) == {s[i] : i \in DOMAIN s}

\* the '\n' of line 57, as a text of its own
NEWLINE == <<10>>

----------------------------------------------------------------------------
(* Packet decoding, lines 31-35 *)

\* UnpackInt16LE with format '<H': the two bytes taken as unsigned
UnpackUInt16LE(data, offset) == data[offset + 1] + 256 * data[offset + 2]

\* struct.unpack_from('<h', data, TEMP1_OFFSET)[0]; data is 1-indexed here
UnpackInt16LE(data, offset) ==
    LET u == data[offset + 1] + 256 * data[offset + 2]
    IN  IF u >= 32768 THEN u - 65536 ELSE u

\* raw / 16.0 * 9 / 5 + 32, kept exactly in units of 1/80 degree Fahrenheit
FahrenheitOf(raw) == 9 * raw + 32 * 80

\* Decode with <= in the length test of line 31
DecodeOffByOne(data) ==
    IF Len(data) <= PACKET_LEN
    THEN NoneVal
    ELSE Some(FahrenheitOf(UnpackInt16LE(data, TEMP1_OFFSET)))

Decode(data) ==
    IF Len(data) < PACKET_LEN
    THEN NoneVal
    ELSE Some(FahrenheitOf(UnpackInt16LE(data, TEMP1_OFFSET)))

\* the exception lines 31-35 raise on data: struct.error when unpack_from is
\* reached with fewer than offset + 2 bytes, else none
DecodeError(data) ==
    IF Len(data) >= PACKET_LEN /\ Len(data) < TEMP1_OFFSET + 2
    THEN "struct.error"
    ELSE "none"

\* format spec .1f: the value in tenths of a degree, rounded to nearest
FormatTenths(f80) == (f80 + 4) \div 8

(* Device responses used as inputs *)
Zeros(n) == [i \in 1..n |-> 0]
LowByte(v) == (v % 65536) % 256
HighByte(v) == (v % 65536) \div 256
Packet(header, v, trailer) == header \o <<LowByte(v), HighByte(v)>> \o trailer

Responses ==
    { <<>>,                                         \* nothing before the timeout
      Zeros(17),                                    \* one byte short
      Packet(Zeros(9), 800, Zeros(7)),              \* 50.0 C, 122.0 F
      Packet(Zeros(9), -16, Zeros(8)),              \* -1.0 C, 30.2 F, one extra byte
      Packet([i \in 1..9 |-> 255], 800, Zeros(55)) }  \* 66 bytes, header not zero

----------------------------------------------------------------------------
(* Scheduler, lines 38-42 *)

Minute(t) == (t \div 60) % 60
Second(t) == t % 60

\* seconds_to_next_quarter reduced modulo the interval: 0 on a quarter
seconds_to_next_quarter_wrapping(minute, second, microsecond) ==
    LET elapsed == ((minute % QUARTER_MINUTES) * 60 + second) * USEC + microsecond
    IN  (QUARTER_MINUTES * 60 * USEC - elapsed) % (QUARTER_MINUTES * 60 * USEC)

\* 15 * 60 - elapsed, in microseconds
seconds_to_next_quarter(minute, second, microsecond) ==
    LET elapsed == ((minute % QUARTER_MINUTES) * 60 + second) * USEC + microsecond
    IN  QUARTER_MINUTES * 60 * USEC - elapsed

----------------------------------------------------------------------------
(* State *)

\* cmds, appends: commands written, lines appended; cmdTries, logTries, posts:
\* calls of ser.write, of open/write on the log file, of requests.post,
\* whatever their outcome; steps: the steps of read_temperature_f done so far;
\* stale: bytes in the input buffer when the command was written
NewTick == [cmds |-> 0, appends |-> 0, posts |-> 0, serialFault |-> FALSE,
            absent |-> FALSE, logFailed |-> FALSE, postFailed |-> FALSE,
            status |-> "none", cmdTries |-> 0, logTries |-> 0,
            steps |-> <<>>, stale |-> 0]

\* the steps of read_temperature_f, lines 27-35, in the order of the source
ExchangeSteps == <<"reset", "write", "settle", "read", "decode">>

NoQuarter == [minute |-> 0, second |-> 0, microsecond |-> 0, result |-> -1]

RunningPCs == {"call", "reset", "write", "settle", "read", "format", "print",
               "log", "post", "compute_wait", "sleep"}

Init ==
    /\ pc = "connect"
    /\ ser = "unopened"
    /\ entered = FALSE
    /\ now \in StartTimes
    /\ inbuf = <<>>
    /\ temp_f = NoneVal
    /\ line = <<>>
    /\ logFile = <<>>
    /\ posted = <<>>
    /\ out = <<>>
    /\ exc = "none"
    /\ exitStatus = -1
    /\ wait = -1
    /\ woke = -1
    /\ readings = 0
    /\ sleeps = 0
    /\ commands = 0
    /\ interruptedAt = "none"
    /\ tick = NewTick
    /\ q = NoQuarter

----------------------------------------------------------------------------
(* main, lines 65-79: Connecting *)

\* line 67 succeeds
Connect ==
    /\ pc = "connect"
    /\ pc' = "connected"
    /\ ser' = "open"
    /\ UNCHANGED <<entered, now, inbuf, temp_f, line, logFile, posted, out, exc,
                   exitStatus, wait, woke, readings, sleeps, commands,
                   interruptedAt, tick, q>>

\* ConnectFail without the sys.exit(1) of line 76: main goes on to line 78
ConnectFailNoExit ==
    /\ pc = "connect"
    /\ out' = out \o <<"OpenError", "Tip">>
    /\ pc' = "connected"
    /\ UNCHANGED <<ser, entered, now, inbuf, temp_f, line, logFile, posted, exc,
                   exitStatus, wait, woke, readings, sleeps, commands,
                   interruptedAt, tick, q>>

\* line 67 raises SerialException: lines 68-76
ConnectFail ==
    /\ pc = "connect"
    /\ out' = out \o <<"OpenError", "Tip">>
    /\ exc' = "SystemExit"
    /\ exitStatus' = 1
    /\ pc' = "done"
    /\ UNCHANGED <<ser, entered, now, inbuf, temp_f, line, logFile, posted,
                   wait, woke, readings, sleeps, commands, interruptedAt, tick, q>>

\* Connected with the port closed before the loop, as after a with block
\* around line 67 alone
ConnectedPortClosed ==
    /\ pc = "connected"
    /\ out' = out \o <<"Connected", "Logging">>
    /\ entered' = TRUE
    /\ ser' = "closed"
    /\ pc' = "call"
    /\ UNCHANGED <<now, inbuf, temp_f, line, logFile, posted, exc,
                   exitStatus, wait, woke, readings, sleeps, commands,
                   interruptedAt, tick, q>>

\* lines 78-83: the two prints, entry of the try block, first call
Connected ==
    /\ pc = "connected"
    /\ out' = out \o <<"Connected", "Logging">>
    /\ entered' = TRUE
    /\ pc' = "call"
    /\ UNCHANGED <<ser, now, inbuf, temp_f, line, logFile, posted, exc,
                   exitStatus, wait, woke, readings, sleeps, commands,
                   interruptedAt, tick, q>>

----------------------------------------------------------------------------
(* log_temperature, lines 45-62, with read_temperature_f, lines 26-35 *)

Take(s, n) == SubSeq(s, 1, IF Len(s) < n THEN Len(s) ELSE n)
Drop(s, n) == SubSeq(s, n + 1, Len(s))

\* lines 83 and 90: log_temperature(ser) is called
EnterLog ==
    /\ pc = "call"
    /\ readings' = readings + 1
    /\ tick' = NewTick
    /\ out' = <<>>
    /\ pc' = "reset"
    /\ UNCHANGED <<ser, entered, now, inbuf, temp_f, line, logFile, posted, exc,
                   exitStatus, wait, woke, sleeps, commands, interruptedAt, q>>

\* ResetInput with line 27 left out: what is buffered stays
ResetInputSkipped ==
    /\ pc = "reset"
    /\ pc' = "write"
    /\ UNCHANGED <<ser, entered, now, inbuf, temp_f, line, logFile, posted, out,
                   exc, exitStatus, wait, woke, readings, sleeps, commands,
                   interruptedAt, tick, q>>

\* line 27: ser.reset_input_buffer()
ResetInput ==
    /\ pc = "reset"
    /\ inbuf' = <<>>
    /\ tick' = [tick EXCEPT !.steps = Append(@, "reset")]
    /\ pc' = "write"
    /\ UNCHANGED <<ser, entered, now, temp_f, line, logFile, posted, out, exc,
                   exitStatus, wait, woke, readings, sleeps, commands,
                   interruptedAt, q>>

\* line 28: ser.write(b'R\r')
WriteCommand ==
    /\ pc = "write"
    /\ commands' = commands + 1
    /\ tick' = [tick EXCEPT !.cmds = @ + 1, !.cmdTries = @ + 1,
                            !.steps = Append(@, "write"), !.stale = Len(inbuf)]
    /\ pc' = "settle"
    /\ UNCHANGED <<ser, entered, now, inbuf, temp_f, line, logFile, posted, out,
                   exc, exitStatus, wait, woke, readings, sleeps, interruptedAt, q>>

\* line 29: time.sleep(1.0); the device's answer, if any, arrives meanwhile
Settle ==
    /\ pc = "settle"
    /\ now' = now + SETTLE_DELAY
    /\ \E r \in Responses : inbuf' = inbuf \o r
    /\ tick' = [tick EXCEPT !.steps = Append(@, "settle")]
    /\ pc' = "read"
    /\ UNCHANGED <<ser, entered, temp_f, line, logFile, posted, out, exc,
                   exitStatus, wait, woke, readings, sleeps, commands,
                   interruptedAt, q>>

\* lines 30-35 and the assignment of line 47: ser.read(64) returns at once with
\* 64 bytes, or after the port's timeout with what there is; then the decoding
ReadResponse ==
    /\ pc = "read"
    /\ LET data == Take(inbuf, READ_SIZE)
       IN  /\ temp_f' = Decode(data)
           /\ tick' = [tick EXCEPT !.absent = (Decode(data) = NoneVal),
                                   !.steps = @ \o <<"read", "decode">>]
    /\ inbuf' = Drop(inbuf, READ_SIZE)
    /\ now' = now + (IF Len(inbuf) >= READ_SIZE THEN 0 ELSE SER_TIMEOUT)
    /\ pc' = "format"
    /\ UNCHANGED <<ser, entered, line, logFile, posted, out, exc, exitStatus,
                   wait, woke, readings, sleeps, commands, interruptedAt, q>>

\* lines 48-50: a serial call of lines 27, 28 or 30 raises SerialException
SerialFault ==
    /\ pc \in {"reset", "write", "read"}
    /\ temp_f' = NoneVal
    /\ out' = Append(out, "SerialError")
    /\ tick' = [tick EXCEPT !.serialFault = TRUE, !.absent = TRUE,
                            !.cmdTries = IF pc = "write" THEN @ + 1 ELSE @]
    /\ pc' = "format"
    /\ UNCHANGED <<ser, entered, now, inbuf, line, logFile, posted, exc,
                   exitStatus, wait, woke, readings, sleeps, commands,
                   interruptedAt, q>>

\* lines 52-53 with a number in temp_f
FormatLine ==
    /\ pc = "format"
    /\ temp_f # NoneVal
    /\ line' = <<now \div 60, FormatTenths(temp_f[1])>>
    /\ pc' = "print"
    /\ UNCHANGED <<ser, entered, now, inbuf, temp_f, logFile, posted, out, exc,
                   exitStatus, wait, woke, readings, sleeps, commands,
                   interruptedAt, tick, q>>

\* line 53 with None in temp_f: None does not take the format spec .1f, a
\* TypeError is raised, which no handler of log_temperature or main catches
FormatNone ==
    /\ pc = "format"
    /\ temp_f = NoneVal
    /\ exc' = "TypeError"
    /\ pc' = "finally"
    /\ UNCHANGED <<ser, entered, now, inbuf, temp_f, line, logFile, posted, out,
                   exitStatus, wait, woke, readings, sleeps, commands,
                   interruptedAt, tick, q>>

\* line 55
PrintLine ==
    /\ pc = "print"
    /\ out' = Append(out, "Line")
    /\ pc' = "log"
    /\ UNCHANGED <<ser, entered, now, inbuf, temp_f, line, logFile, posted, exc,
                   exitStatus, wait, woke, readings, sleeps, commands,
                   interruptedAt, tick, q>>

\* LogAppend with the file opened in mode 'w': what was there is lost
LogAppendTruncating ==
    /\ pc = "log"
    /\ logFile' = <<line, NEWLINE>>
    /\ tick' = [tick EXCEPT !.appends = @ + 1, !.logTries = @ + 1]
    /\ pc' = "post"
    /\ UNCHANGED <<ser, entered, now, inbuf, temp_f, line, posted, out, exc,
                   exitStatus, wait, woke, readings, sleeps, commands,
                   interruptedAt, q>>

\* lines 56-57: open in append mode, write line + '\n', close
LogAppend ==
    /\ pc = "log"
    /\ logFile' = logFile \o <<line, NEWLINE>>
    /\ tick' = [tick EXCEPT !.appends = @ + 1, !.logTries = @ + 1]
    /\ pc' = "post"
    /\ UNCHANGED <<ser, entered, now, inbuf, temp_f, line, posted, out, exc,
                   exitStatus, wait, woke, readings, sleeps, commands,
                   interruptedAt, q>>

\* lines 56-57 raise OSError (the file cannot be opened or written); nothing
\* in log_temperature or main catches it
LogFail ==
    /\ pc = "log"
    /\ tick' = [tick EXCEPT !.logFailed = TRUE, !.logTries = @ + 1]
    /\ exc' = "OSError"
    /\ pc' = "finally"
    /\ UNCHANGED <<ser, entered, now, inbuf, temp_f, line, logFile, posted, out,
                   exitStatus, wait, woke, readings, sleeps, commands,
                   interruptedAt, q>>

\* PostLine with the text written to the file, newline included, as the body
PostLineWithNewline ==
    /\ pc = "post"
    /\ \E d \in 0..MaxStall : now' = now + d
    /\ \E st \in {"2xx", "non2xx"} :
          tick' = [tick EXCEPT !.posts = @ + 1, !.status = st]
    /\ posted' = Append(posted, line \o NEWLINE)
    /\ pc' = "compute_wait"
    /\ UNCHANGED <<ser, entered, inbuf, temp_f, line, logFile, out, exc,
                   exitStatus, wait, woke, readings, sleeps, commands,
                   interruptedAt, q>>

\* line 60 returns a response, whatever its status code
PostLine ==
    /\ pc = "post"
    /\ \E d \in 0..MaxStall : now' = now + d
    /\ \E st \in {"2xx", "non2xx"} :
          tick' = [tick EXCEPT !.posts = @ + 1, !.status = st]
    /\ posted' = Append(posted, line)
    /\ pc' = "compute_wait"
    /\ UNCHANGED <<ser, entered, inbuf, temp_f, line, logFile, out, exc,
                   exitStatus, wait, woke, readings, sleeps, commands,
                   interruptedAt, q>>

\* PostFail without the try/except of lines 59-62: the error leaves main
PostFailUncaught ==
    /\ pc = "post"
    /\ \E d \in 0..MaxStall : now' = now + d
    /\ tick' = [tick EXCEPT !.posts = @ + 1, !.postFailed = TRUE, !.status = "error"]
    /\ posted' = Append(posted, line)
    /\ exc' = "RequestException"
    /\ pc' = "finally"
    /\ UNCHANGED <<ser, entered, inbuf, temp_f, line, logFile, out, exitStatus,
                   wait, woke, readings, sleeps, commands, interruptedAt, q>>

\* PostFail with the submission tried again after a failure
PostFailRetry ==
    /\ pc = "post"
    /\ \E d \in 0..MaxStall : now' = now + d
    /\ tick' = [tick EXCEPT !.posts = @ + 1, !.postFailed = TRUE, !.status = "error"]
    /\ posted' = Append(posted, line)
    /\ out' = Append(out, "PostFailed")
    /\ pc' = IF tick.posts = 0 THEN "post" ELSE "compute_wait"
    /\ UNCHANGED <<ser, entered, inbuf, temp_f, line, logFile, exc, exitStatus,
                   wait, woke, readings, sleeps, commands, interruptedAt, q>>

\* line 60 raises (network error, timeout): lines 61-62
PostFail ==
    /\ pc = "post"
    /\ \E d \in 0..MaxStall : now' = now + d
    /\ tick' = [tick EXCEPT !.posts = @ + 1, !.postFailed = TRUE, !.status = "error"]
    /\ posted' = Append(posted, line)
    /\ out' = Append(out, "PostFailed")
    /\ pc' = "compute_wait"
    /\ UNCHANGED <<ser, entered, inbuf, temp_f, line, logFile, exc, exitStatus,
                   wait, woke, readings, sleeps, commands, interruptedAt, q>>

----------------------------------------------------------------------------
(* main, lines 85-95: the loop and the shutdown *)

\* ComputeWait with the time.sleep(wait) of line 89 left out
ComputeWaitNoSleep ==
    /\ pc = "compute_wait"
    /\ wait' = seconds_to_next_quarter(Minute(now), Second(now), 0) \div USEC
    /\ out' = Append(out, "NextLog")
    /\ pc' = "call"
    /\ UNCHANGED <<ser, entered, now, inbuf, temp_f, line, logFile, posted, exc,
                   exitStatus, woke, readings, sleeps, commands, interruptedAt,
                   tick, q>>

\* ComputeWait with the clock read before the tick instead of after it: the
\* time the tick took is not taken off the wait
ComputeWaitStaleClock ==
    /\ pc = "compute_wait"
    /\ LET t == IF woke >= 0 THEN woke ELSE now
       IN  wait' = seconds_to_next_quarter(Minute(t), Second(t), 0) \div USEC
    /\ out' = Append(out, "NextLog")
    /\ pc' = "sleep"
    /\ UNCHANGED <<ser, entered, now, inbuf, temp_f, line, logFile, posted, exc,
                   exitStatus, woke, readings, sleeps, commands, interruptedAt,
                   tick, q>>

\* lines 86-88
ComputeWait ==
    /\ pc = "compute_wait"
    /\ wait' = seconds_to_next_quarter(Minute(now), Second(now), 0) \div USEC
    /\ out' = Append(out, "NextLog")
    /\ pc' = "sleep"
    /\ UNCHANGED <<ser, entered, now, inbuf, temp_f, line, logFile, posted, exc,
                   exitStatus, woke, readings, sleeps, commands, interruptedAt,
                   tick, q>>

\* line 89 returns, after wait seconds or a little later; line 90 follows.
\* wait is not read again before line 86 assigns it anew, so it is forgotten
Sleep ==
    /\ pc = "sleep"
    /\ readings < MaxTicks
    /\ \E late \in 0..MaxOvershoot : /\ now' = now + wait + late
                                     /\ woke' = now + wait + late
    /\ wait' = -1
    /\ sleeps' = sleeps + 1
    /\ pc' = "call"
    /\ UNCHANGED <<ser, entered, inbuf, temp_f, line, logFile, posted, out, exc,
                   exitStatus, readings, commands, interruptedAt, tick, q>>

\* InterruptRunning with line 61 catching BaseException: an interrupt during
\* the submission is taken for a failed post and the loop goes on
InterruptCaughtByPostHandler ==
    /\ pc \in RunningPCs
    /\ interruptedAt = "none"
    /\ interruptedAt' = pc
    /\ IF pc = "post"
       THEN /\ out' = Append(out, "PostFailed")
            /\ pc' = "compute_wait"
            /\ exc' = exc
       ELSE /\ out' = out
            /\ pc' = "except_kbd"
            /\ exc' = "KeyboardInterrupt"
    /\ UNCHANGED <<ser, entered, now, inbuf, temp_f, line, logFile, posted,
                   exitStatus, wait, woke, readings, sleeps, commands, tick, q>>

\* The operator interrupt arrives inside the try block of lines 81-90:
\* KeyboardInterrupt is no SerialException and no Exception, so the handlers
\* of lines 48 and 61 let it pass and line 92 catches it
InterruptRunning ==
    /\ pc \in RunningPCs
    /\ interruptedAt = "none"
    /\ interruptedAt' = pc
    /\ exc' = "KeyboardInterrupt"
    /\ pc' = "except_kbd"
    /\ UNCHANGED <<ser, entered, now, inbuf, temp_f, line, logFile, posted, out,
                   exitStatus, wait, woke, readings, sleeps, commands, tick, q>>

\* The operator interrupt arrives in lines 66-79, outside the try block of
\* line 81: nothing catches it; the interpreter reports it and exits with 1
\* or, re-raising the signal, with 130
InterruptStartup ==
    /\ pc \in {"connect", "connected"}
    /\ interruptedAt = "none"
    /\ interruptedAt' = pc
    /\ exc' = "KeyboardInterrupt"
    /\ out' = Append(out, "Traceback")
    /\ \E st \in {1, 130} : exitStatus' = st
    /\ pc' = "done"
    /\ UNCHANGED <<ser, entered, now, inbuf, temp_f, line, logFile, posted,
                   wait, woke, readings, sleeps, commands, tick, q>>

\* lines 92-93
ExceptKeyboardInterrupt ==
    /\ pc = "except_kbd"
    /\ out' = Append(out, "Stopped")
    /\ exc' = "none"
    /\ pc' = "finally"
    /\ UNCHANGED <<ser, entered, now, inbuf, temp_f, line, logFile, posted,
                   exitStatus, wait, woke, readings, sleeps, commands,
                   interruptedAt, tick, q>>

\* Finally with ser.close() after the try statement instead of in its finally
\* clause: an exception on its way out of main skips it
FinallyCleanExitOnly ==
    /\ pc = "finally"
    /\ IF exc = "none"
       THEN ser' = "closed" /\ exitStatus' = 0 /\ out' = out
       ELSE ser' = ser /\ exitStatus' = 1 /\ out' = Append(out, "Traceback")
    /\ pc' = "done"
    /\ UNCHANGED <<entered, now, inbuf, temp_f, line, logFile, posted, exc,
                   wait, woke, readings, sleeps, commands, interruptedAt, tick, q>>

\* lines 94-95, then the end of main: status 0 when no exception is pending,
\* else the interpreter prints the traceback and exits with status 1
Finally ==
    /\ pc = "finally"
    /\ ser' = "closed"
    /\ IF exc = "none"
       THEN exitStatus' = 0 /\ out' = out
       ELSE exitStatus' = 1 /\ out' = Append(out, "Traceback")
    /\ pc' = "done"
    /\ UNCHANGED <<entered, now, inbuf, temp_f, line, logFile, posted, exc,
                   wait, woke, readings, sleeps, commands, interruptedAt, tick, q>>

Next ==
    \/ Connect
    \/ ConnectFail
    \/ Connected
    \/ EnterLog
    \/ ResetInput
    \/ WriteCommand
    \/ Settle
    \/ ReadResponse
    \/ SerialFault
    \/ FormatLine
    \/ FormatNone
    \/ PrintLine
    \/ LogAppend
    \/ LogFail
    \/ PostLine
    \/ PostFail
    \/ ComputeWait
    \/ Sleep
    \/ InterruptRunning
    \/ InterruptStartup
    \/ ExceptKeyboardInterrupt
    \/ Finally

Spec == Init /\ [][Next]_vars

TypeOK ==
    /\ pc \in RunningPCs \cup {"connect", "connected", "except_kbd", "finally", "done"}
    /\ ser \in {"unopened", "open", "closed"}
    /\ now \in Nat
    /\ exitStatus \in {-1, 0, 1, 130}

----------------------------------------------------------------------------
(* seconds_to_next_quarter on its own: one call at every time of the hour *)

InitQuarter ==
    /\ pc = "quarter"
    /\ ser = "unopened"
    /\ entered = FALSE
    /\ now = 0
    /\ inbuf = <<>>
    /\ temp_f = NoneVal
    /\ line = <<>>
    /\ logFile = <<>>
    /\ posted = <<>>
    /\ out = <<>>
    /\ exc = "none"
    /\ exitStatus = -1
    /\ wait = -1
    /\ woke = -1
    /\ readings = 0
    /\ sleeps = 0
    /\ commands = 0
    /\ interruptedAt = "none"
    /\ tick = NewTick
    /\ q \in [minute : 0..59, second : 0..59, microsecond : Micros, result : {-1}]

\* datetime.now() is q's time; lines 40-42
CallQuarter ==
    /\ pc = "quarter"
    /\ q.result = -1
    /\ q' = [q EXCEPT !.result =
                 seconds_to_next_quarter(q.minute, q.second, q.microsecond)]
    /\ UNCHANGED <<pc, ser, entered, now, inbuf, temp_f, line, logFile, posted,
                   out, exc, exitStatus, wait, woke, readings, sleeps, commands,
                   interruptedAt, tick>>

NextQuarter == CallQuarter

SpecQuarter == InitQuarter /\ [][NextQuarter]_vars

----------------------------------------------------------------------------
(* The decoding of read_temperature_f on its own: one call on every buffer *)
(* ser.read(64) can return, over a sample of byte values                   *)

SampleBytes == {0, 1, 3, 32, 127, 128, 240, 255}
FillBytes == {0, 255}

\* n bytes: header bytes h, the two temperature bytes lo and hi, then bytes t
MakeData(n, h, lo, hi, t) ==
    [i \in 1..n |-> IF i <= TEMP1_OFFSET THEN h
                    ELSE IF i = TEMP1_OFFSET + 1 THEN lo
                    ELSE IF i = TEMP1_OFFSET + 2 THEN hi
                    ELSE t]

DecodeInputs ==
    {MakeData(n, h, lo, hi, t) :
        n \in 0..READ_SIZE, h \in FillBytes, lo \in SampleBytes,
        hi \in SampleBytes, t \in FillBytes}

InitDecode ==
    /\ pc = "decode"
    /\ ser = "unopened"
    /\ entered = FALSE
    /\ now = 0
    /\ inbuf = <<>>
    /\ temp_f = NoneVal
    /\ line = <<>>
    /\ logFile = <<>>
    /\ posted = <<>>
    /\ out = <<>>
    /\ exc = "none"
    /\ exitStatus = -1
    /\ wait = -1
    /\ woke = -1
    /\ readings = 0
    /\ sleeps = 0
    /\ commands = 0
    /\ interruptedAt = "none"
    /\ tick = NewTick
    /\ q \in [data : DecodeInputs, done : {FALSE}, result : {NoneVal},
              error : {"none"}]

\* lines 31-35 on the data of q
CallDecode ==
    /\ pc = "decode"
    /\ ~q.done
    /\ q' = [q EXCEPT !.done = TRUE,
                      !.error = DecodeError(q.data),
                      !.result = Decode(q.data)]
    /\ UNCHANGED <<pc, ser, entered, now, inbuf, temp_f, line, logFile, posted,
                   out, exc, exitStatus, wait, woke, readings, sleeps, commands,
                   interruptedAt, tick>>

NextDecode == CallDecode

SpecDecode == InitDecode /\ [][NextDecode]_vars

----------------------------------------------------------------------------
(* Properties *)

\* an exception that nothing in main.py catches is on its way out of main
Crashed == exc \in {"TypeError", "OSError", "RequestException"}

\* the loop goes on: the thread is still inside the try block of lines 81-90,
\* unless the operator has interrupted it
LoopGoesOn == interruptedAt = "none" => pc \in RunningPCs

Last(s) == s[Len(s)]

\* the text of the last line of a file that ends with NEWLINE
LastLine(f) == f[Len(f) - 1]

\* the number of lines of a file
LineCount(f) == Cardinality({i \in DOMAIN f : f[i] = NEWLINE})

\* C1: a tick whose device exchange raised SerialException has its fault
\* caught: temp_f is None, "Serial error" is printed, and the process stays
\* in the sampling loop.
C1_SerialFaultContained ==
    tick.serialFault =>
        /\ temp_f = NoneVal
        /\ "SerialError" \in Range(out)
        /\ ~Crashed
        /\ LoopGoesOn

\* C2: a tick whose reading is absent (short response or serial fault) does
\* not crash the process, and once the tick is past the log write its Log
\* Line is the last line of the log file.
C2_AbsentReadingLogged ==
    tick.absent =>
        /\ exc # "TypeError"
        /\ LoopGoesOn
        /\ pc \in {"post", "compute_wait", "sleep"} =>
              (tick.appends = 1 /\ logFile # <<>> /\ LastLine(logFile) = line)

\* C3: a tick whose log-file write failed does not crash the process, the
\* HTTP submission of that tick is still made, and the loop goes on.
C3_LogFailureNotFatal ==
    tick.logFailed =>
        /\ exc # "OSError"
        /\ LoopGoesOn
        /\ pc \in {"compute_wait", "sleep"} => tick.posts = 1

\* C4: a tick whose HTTP submission raised has the error caught and "post
\* failed" printed, its Log Line is the last line of the log file, and the
\* loop goes on to the wait, the sleep and the next call.
C4_PostFailureContained ==
    tick.postFailed =>
        /\ "PostFailed" \in Range(out)
        /\ ~Crashed
        /\ tick.appends = 1
        /\ logFile # <<>>
        /\ LastLine(logFile) = line
        /\ Last(posted) = line
        /\ interruptedAt = "none" => pc \in {"compute_wait", "sleep", "call"}

C4_Witness == tick.postFailed /\ pc = "call" /\ sleeps = 1 /\ LineCount(logFile) = 1

C6_OpenFailureIsFatal ==
    "OpenError" \in Range(out) =>
        /\ pc = "done"
        /\ exitStatus = 1
        /\ "Tip" \in Range(out)
        /\ ~entered
        /\ ser = "unopened"
        /\ readings = 0
        /\ commands = 0
        /\ logFile = <<>>
        /\ posted = <<>>

C6_Witness == pc = "done" /\ exc = "SystemExit" /\ exitStatus = 1

\* C7: after an operator interrupt at any position of the try block the
\* thread is in the handler of line 92 or beyond it, never back in the loop;
\* "Stopped." is printed, and the process ends with the connection closed
\* and status 0.
C7_InterruptShutsDown ==
    interruptedAt \in RunningPCs =>
        /\ pc \in {"except_kbd", "finally", "done"}
        /\ pc = "except_kbd" => exc = "KeyboardInterrupt"
        /\ pc \in {"finally", "done"} => (exc = "none" /\ "Stopped" \in Range(out))
        /\ pc = "done" => (ser = "closed" /\ exitStatus = 0)

C7_Witness == pc = "done" /\ interruptedAt = "post" /\ exitStatus = 0

\* C8: the first call of log_temperature comes with no sleep before it, and
\* from then on calls and completed sleeps alternate: a call is made only
\* when every earlier call has been followed by a completed sleep, and a
\* sleep completes only after a wait computed since the last call.
C8_Counts ==
    /\ pc = "call" => readings = sleeps
    /\ pc \in RunningPCs \ {"call"} => readings = sleeps + 1
    /\ readings \in {sleeps, sleeps + 1}
    /\ sleeps = 0 => woke = -1

C8_Step ==
    /\ readings' = readings + 1 => (pc = "call" /\ readings = sleeps)
    /\ sleeps' = sleeps + 1 =>
          (pc = "sleep" /\ readings = sleeps + 1 /\ wait >= 1 /\ now' >= now + wait)
    /\ readings' \in {readings, readings + 1}
    /\ sleeps' \in {sleeps, sleeps + 1}

C8_ReadingsAlternateWithSleeps == []C8_Counts /\ [][C8_Step]_vars

C8_Witness == pc = "reset" /\ readings = 2 /\ sleeps = 1

\* C9: at every whole second of the hour seconds_to_next_quarter returns
\* 900 - ((minute mod 15) * 60 + second) seconds, a value in 1..900 that added
\* to the time gives a quarter of the hour; 900 on a quarter, 450 at 7:30.
C9_QuarterFormula ==
    (q.result # -1 /\ q.microsecond = 0) =>
        LET w == q.result \div USEC
            t == q.minute * 60 + q.second
        IN  /\ q.result = w * USEC
            /\ w = 900 - ((q.minute % 15) * 60 + q.second)
            /\ w \in 1..900
            /\ (t + w) % 900 = 0
            /\ t % 900 = 0 => w = 900
            /\ (q.minute = 7 /\ q.second = 30) => w = 450

C9_Witness ==
    q.minute = 7 /\ q.second = 30 /\ q.microsecond = 0 /\ q.result = 450 * USEC

\* the tick that began when the last sleep returned has taken this long
ProcessingTime == now - woke

\* C10 as stated: when the last sleep ended exactly on a quarter B and the
\* tick took between 0 and 900 seconds, both included, the wait computed
\* next is positive and ends at B + 900.
C10_NextQuarterUpTo900 ==
    (pc = "sleep" /\ woke >= 0 /\ woke % 900 = 0 /\ ProcessingTime <= 900) =>
        (wait > 0 /\ now + wait = woke + 900)

\* C10 amended: after any sleep the wait computed next is positive and ends
\* on a quarter later than the time the sleep returned; when the sleep ended
\* exactly on a quarter B and the tick took less than 900 seconds, it ends
\* at B + 900.
C10_NextQuarterBelow900 ==
    (pc = "sleep" /\ woke >= 0) =>
        /\ wait > 0
        /\ (now + wait) % 900 = 0
        /\ now + wait > woke
        /\ (woke % 900 = 0 /\ ProcessingTime < 900) => now + wait = woke + 900

C10_Witness ==
    pc = "sleep" /\ woke >= 0 /\ woke % 900 = 0 /\ ProcessingTime = 899

\* s is an initial part of t
IsPrefix(s, t) == Len(s) <= Len(t) /\ SubSeq(t, 1, Len(s)) = s

\* C11: the log file is at all times a sequence of newline-terminated lines,
\* at most one per call of log_temperature; every step leaves what is in the
\* file as it is, as the beginning of the file; the file changes only in
\* the log write, which adds exactly one line with its newline at the end.
C11_WellFormed ==
    /\ Len(logFile) = 2 * LineCount(logFile)
    /\ \A i \in DOMAIN logFile : (logFile[i] = NEWLINE) <=> (i % 2 = 0)
    /\ LineCount(logFile) <= readings
    /\ pc \in {"post", "compute_wait", "sleep"} => tick.appends = 1

C11_Step ==
    /\ IsPrefix(logFile, logFile')
    /\ LineCount(logFile') >= LineCount(logFile)
    /\ logFile' # logFile => pc = "log"
    /\ (pc = "log" /\ pc' = "post") =>
          /\ LineCount(logFile') = LineCount(logFile) + 1
          /\ Last(logFile') = NEWLINE
          /\ LastLine(logFile') = line

C11_LogOnlyGrows == []C11_WellFormed /\ [][C11_Step]_vars

C11_Witness == pc = "post" /\ LineCount(logFile) = 2 /\ readings = 2

\* C12: decoding a response of fewer than 18 bytes gives None and raises
\* nothing; decoding a response of 18 bytes or more gives a number and
\* raises nothing.
C12_ShortIsAbsent ==
    q.done =>
        /\ q.error = "none"
        /\ Len(q.data) < 18 => q.result = NoneVal
        /\ Len(q.data) >= 18 => (Len(q.result) = 1 /\ q.result[1] \in Int)

C12_Witness == q.done /\ Len(q.data) = 17 /\ q.result = NoneVal

\* C13: for a response of 18 bytes or more the result F, kept as 80 * F, is
\* 9 * v + 2560 for the one v in -32768..32767 that is congruent modulo 65536
\* to byte 9 + 256 * byte 10; 800 gives 122.0.  No other byte of the
\* response enters the statement.
C13_FahrenheitOfBytes ==
    (q.done /\ Len(q.data) >= 18) =>
        LET f80 == q.result[1]
            v   == (f80 - 2560) \div 9
        IN  /\ f80 = 9 * v + 2560
            /\ v \in -32768..32767
            /\ (v - (q.data[10] + 256 * q.data[11])) % 65536 = 0
            /\ v = 800 => f80 = 122 * 80

C13_Witness ==
    /\ q.done
    /\ Len(q.data) = 64
    /\ q.data[1] = 255
    /\ q.data[10] = 240 /\ q.data[11] = 255
    /\ q.data[12] = 255
    /\ q.result = Some(9 * (-16) + 2560)

\* C14: a tick whose HTTP submission came back with a status outside 2xx has
\* the failure reported on the console, and the loop goes on.
C14_Non2xxReported ==
    tick.status = "non2xx" =>
        /\ "PostFailed" \in Range(out)
        /\ ~Crashed
        /\ LoopGoesOn

\* C15: the steps of a device read are done in the order reset, write,
\* settle, read, decode, each once: at every position the steps done are the
\* ones the source puts before it, and a read that returned has done them
\* all; the input buffer is empty when the command is written, so nothing
\* buffered before the command is read or decoded.
C15_ExchangeOrder ==
    /\ IsPrefix(tick.steps, ExchangeSteps)
    /\ pc = "reset" => tick.steps = <<>>
    /\ pc = "write" => tick.steps = <<"reset">>
    /\ pc = "settle" => tick.steps = <<"reset", "write">>
    /\ pc = "read" => tick.steps = <<"reset", "write", "settle">>
    /\ (pc \in {"format", "print", "log", "post", "compute_wait", "sleep"}
            /\ ~tick.serialFault) => tick.steps = ExchangeSteps
    /\ "read" \in Range(tick.steps) => tick.cmds = 1
    /\ tick.stale = 0
    /\ pc \in {"write", "settle"} => inbuf = <<>>

C15_Witness ==
    /\ pc = "format"
    /\ readings = 2
    /\ tick.stale = 0
    /\ tick.steps = ExchangeSteps
    /\ temp_f = Some(9 * 800 + 2560)

\* C16: in every call of log_temperature the command is written at most once,
\* the log file is opened for writing at most once and requests.post is
\* called at most once, whether they succeed or fail; over the run there are
\* no more commands, log lines and posts than calls of log_temperature.
C16_NoRetry ==
    /\ tick.cmdTries <= 1
    /\ tick.cmds <= tick.cmdTries
    /\ tick.logTries <= 1
    /\ tick.appends <= tick.logTries
    /\ tick.posts <= 1
    /\ commands <= readings
    /\ LineCount(logFile) <= readings
    /\ Len(posted) <= readings
    /\ tick.serialFault => pc \notin {"reset", "write", "settle", "read"}
    /\ tick.logFailed => pc # "log"
    /\ tick.postFailed => pc # "post"

C16_Witness ==
    /\ readings = 2
    /\ pc = "sleep"
    /\ tick.postFailed
    /\ tick.posts = 1
    /\ Len(posted) = 2

\* C17: the connection goes from unopened to open once, at line 67, and from
\* open to closed once, at line 95, and makes no other change; the thread is
\* at a device operation (reset, write, settle, read) only while the
\* connection is open, and the operation leaves it open; before the open no
\* command has been written and log_temperature has not been called.
C17_OpenWhileUsed ==
    /\ pc \in {"reset", "write", "settle", "read"} => ser = "open"
    /\ ser = "unopened" => (commands = 0 /\ readings = 0 /\ ~entered)
    /\ ser = "closed" => pc \in {"done"}

C17_Step ==
    /\ ser' # ser =>
          \/ (ser = "unopened" /\ ser' = "open" /\ pc = "connect")
          \/ (ser = "open" /\ ser' = "closed" /\ pc = "finally")
    /\ pc \in {"reset", "write", "settle", "read"} => (ser = "open" /\ ser' = "open")
    /\ commands' # commands => ser = "open"

C17_OpenedOnceUsedWhileOpen == []C17_OpenWhileUsed /\ [][C17_Step]_vars

C17_Witness == pc = "read" /\ readings = 2 /\ commands = 2 /\ ser = "open"

\* C18: in a call of log_temperature the line is printed before the log file
\* is opened, and requests.post is called only after the line of this call
\* has been appended; the body posted is the text of the line that is last
\* in the log file, the one appended in this call; the file is not touched
\* by the post.
C18_Order ==
    /\ pc = "print" => (tick.logTries = 0 /\ tick.posts = 0 /\ "Line" \notin Range(out))
    /\ pc = "log" => (tick.logTries = 0 /\ tick.posts = 0)
    /\ tick.logTries >= 1 => "Line" \in Range(out)
    /\ pc = "post" => (tick.appends = 1 /\ tick.posts = 0)
    /\ tick.posts >= 1 =>
          /\ tick.appends = 1
          /\ Last(posted) = line
          /\ Last(posted) = LastLine(logFile)
    /\ Len(posted) <= LineCount(logFile)

C18_Step ==
    posted' # posted =>
        /\ pc = "post"
        /\ tick.appends = 1
        /\ logFile' = logFile
        /\ posted' = Append(posted, LastLine(logFile))

C18_PrintLogPost == []C18_Order /\ [][C18_Step]_vars

C18_Witness ==
    /\ pc = "compute_wait"
    /\ readings = 2
    /\ tick.status = "2xx"
    /\ Len(posted) = 2
    /\ posted[2] = LastLine(logFile)
    /\ posted[1] # posted[2]

====
